---- MODULE Spec2Model ----
(***************************************************************************)
(* A model of the chained hash table of src/hashtable.c.                   *)
(*                                                                         *)
(* The table struct is the record `table`; a bucket chain (a singly linked *)
(* list of hash_table_element_t) is a sequence of element records, head    *)
(* first.  A pointer to a key or value buffer is a record [buf, copy]:     *)
(* buf names the caller's buffer whose bytes it holds, copy tells a block  *)
(* the table malloc'ed and memcpy'ed from a block the caller owns.         *)
(* Every function of the source is an operator that takes the table (and   *)
(* the allocator state oom) and returns a record                           *)
(*    [t, ret, ev, oom, sig]                                               *)
(* t the table after the call, ret the return value, ev the sequence of    *)
(* free / destroy-function calls it made, sig the signal that ended the    *)
(* process ("none" when the call returned).                                *)
(***************************************************************************)
EXTENDS Integers, Sequences, FiniteSets, TLC

VARIABLES
    table,          \* the hash_table_t struct and the chains it owns
    element_index,  \* static uint16_t element_index of hash_table_iter_keys_next
    proc,           \* "live", "freed" (table destroyed), or the signal that killed the process
    last,           \* the last public call: name, arguments, return value, calls made
    visited         \* keys returned by hash_table_iter_keys_next since the last reset

vars == <<table, element_index, proc, last, visited>>

(* ------------------------------ bounds -------------------------------- *)

\* caller key buffers are 1..NKeys, their bytes are KeyBytes[k]
NKeys == 3
\* caller value buffers are 1..NValues
NValues == 2
\* hash_table_resize is called directly with len in 1..MaxResizeLen
MaxResizeLen == 2
\* the oom-th allocation of a call fails, oom in 0..MaxOom (0: none fails)
MaxOom == 2

(* ------------------------- program constants -------------------------- *)

INITIAL_SIZE == 128
KEY_RATIO == 4
\* uint16_t hash = 0xbabe
HASH_SEED == 47806
\* uint16_t wraps modulo 2^16
UINT16 == 65536
\* sizeof(*value) of the values the callers pass
VALUE_LEN == 4

MODE_COPY == "MODE_COPY"
MODE_VALUEREF == "MODE_VALUEREF"
MODE_ALLREF == "MODE_ALLREF"
Modes == {MODE_COPY, MODE_VALUEREF, MODE_ALLREF}

(* ------------------------- buffers and pointers ----------------------- *)

\* The bytes of the caller's key buffers (little endian): int 0, int 64,
\* short 16, int 128, char 7, int 1.  With 128 buckets int 0, short 16 and
\* int 128 hash to bucket 46 and int 64 to bucket 110; with 64 buckets or
\* fewer (a power of two) the four share a bucket.
KeyBytes ==
    << <<0, 0, 0, 0>>, <<64, 0, 0, 0>>, <<16, 0>>, <<128, 0, 0, 0>>, <<7>>, <<1, 0, 0, 0>> >>

KeyBufs == 1..NKeys
ValueBufs == 1..NValues

NULL == [buf |-> 0, copy |-> FALSE]
Ptr(b) == [buf |-> b, copy |-> FALSE]
\* malloc(len) followed by memcpy(dst, src, len)
memdup(p) == [buf |-> p.buf, copy |-> TRUE]

KeyLen(b) == Len(KeyBytes[b])

\* memcmp(a, b, n) == 0 for two key pointers
memcmp_eq(a, b, n) == SubSeq(KeyBytes[a.buf], 1, n) = SubSeq(KeyBytes[b.buf], 1, n)

\* malloc / calloc: the oom-th allocation from now fails (0: none)
alloc_ok(oom) == oom # 1
alloc_next(oom) == IF oom = 0 THEN 0 ELSE oom - 1

R(t, ret, ev, oom, sig) == [t |-> t, ret |-> ret, ev |-> ev, oom |-> oom, sig |-> sig]

(* ------------------------------ hashing ------------------------------- *)

RECURSIVE Xor(_, _)
\* bitwise exclusive or of two naturals
Xor(a, b) ==
    IF a = 0 THEN b
    ELSE IF b = 0 THEN a
    ELSE (((a % 2) + (b % 2)) % 2) + 2 * Xor(a \div 2, b \div 2)

\* the i-th uint16_t of a key buffer (i from 0)
Word(bytes, i) == bytes[2 * i + 1] + 256 * bytes[2 * i + 2]

RECURSIVE hash_mix(_, _, _, _)
\* the loop of hash_table_do_hash: hash ^= (i<<4 ^ *ptr<<8 ^ *ptr), hash a uint16_t
hash_mix(bytes, key_len, i, hash) ==
    IF i < key_len \div 2
    THEN hash_mix(bytes, key_len, i + 1,
                  Xor(hash, Xor(Xor(i * 16, Word(bytes, i) * 256), Word(bytes, i))) % UINT16)
    ELSE hash

\* hash_mix of every key buffer and length, evaluated once
Mixed ==
    [b \in DOMAIN KeyBytes |->
        [n \in 0..Len(KeyBytes[b]) |-> hash_mix(KeyBytes[b], n, 0, HASH_SEED)]]

\* return hash % max_key.  With max_key 0 the remainder is undefined
\* behaviour: where the division yields 0 (AArch64: udiv, then msub) it is
\* hash - 0 * 0 = hash; the callers take the outcome of a trap.
hash_table_do_hash(key, key_len, max_key) ==
    IF max_key = 0 THEN Mixed[key.buf][key_len]
    ELSE Mixed[key.buf][key_len] % max_key

\* the macro HASH(x, y): hash_table_do_hash(x, y, table->key_num)
HASH(t, key, key_len) == hash_table_do_hash(key, key_len, t.key_num)

(* ------------------------------ elements ------------------------------ *)

Element(key, key_len, value, value_len) ==
    [key |-> key, key_len |-> key_len, value |-> value, value_len |-> value_len]

\* the indexes (from 1) of the buckets among store[1 .. n] that hold a chain
Occupied(store, n) == {i \in 1..n : store[i] # <<>>}

\* the least bucket index of a non-empty set
First(S) == CHOOSE i \in S : \A j \in S : i <= j

RECURSIVE SumLen(_, _)
\* the number of elements in the chains of the buckets S
SumLen(store, S) ==
    IF S = {} THEN 0 ELSE Len(store[First(S)]) + SumLen(store, S \ {First(S)})

hash_table_count_keys(t) == SumLen(t.store_house, Occupied(t.store_house, t.key_num))

hash_table_len(t) == t.key_count

\* hash_table_element_delete_internal with the slip of not calling
\* key_destroy_fun in MODE_ALLREF
delete_internal_without_key_destroy(t, element, notify) ==
    IF t.mode = MODE_COPY
    THEN << <<"free", element.value>>, <<"free", element.key>> >>
    ELSE IF t.mode = MODE_VALUEREF
    THEN << <<"free", element.key>> >>
         \o (IF notify
             THEN (IF t.value_destroy_fun
                   THEN << <<"value_destroy_fun", element.value>> >> ELSE <<>>)
                  \o << <<"free", element.key>> >>
             ELSE <<>>)
    ELSE IF notify
    THEN (IF t.value_destroy_fun
          THEN << <<"value_destroy_fun", element.value>> >> ELSE <<>>)
    ELSE <<>>

\* the calls hash_table_element_delete_internal makes for one element
hash_table_element_delete_internal(t, element, notify) ==
    IF t.mode = MODE_COPY
    THEN << <<"free", element.value>>, <<"free", element.key>> >>
    ELSE IF t.mode = MODE_VALUEREF
    THEN << <<"free", element.key>> >>
         \o (IF notify
             THEN (IF t.value_destroy_fun
                   THEN << <<"value_destroy_fun", element.value>> >> ELSE <<>>)
                  \o << <<"free", element.key>> >>
             ELSE <<>>)
    ELSE IF notify
    THEN (IF t.key_destroy_fun THEN << <<"key_destroy_fun", element.key>> >> ELSE <<>>)
         \o (IF t.value_destroy_fun
             THEN << <<"value_destroy_fun", element.value>> >> ELSE <<>>)
    ELSE <<>>

hash_table_element_delete(t, element) ==
    hash_table_element_delete_internal(t, element, TRUE)

(* ------------------------------- table -------------------------------- *)

EmptyStore(len) == [i \in 1..len |-> <<>>]

hash_table_new_full(mode, key_destroy_fun, value_destroy_fun) ==
    [ store_house |-> EmptyStore(INITIAL_SIZE),
      mode |-> mode,
      key_destroy_fun |-> key_destroy_fun,
      value_destroy_fun |-> value_destroy_fun,
      key_count |-> 0,
      key_num |-> INITIAL_SIZE,
      key_ratio |-> KEY_RATIO,
      iter_pos |-> 0 ]

hash_table_new(mode) == hash_table_new_full(mode, FALSE, FALSE)

\* a call that does not return: the process is killed by signal sig
Killed(t, ev, oom, sig) == R(t, 0 - 1, ev, oom, sig)

RECURSIVE OldElements(_, _)
\* the elements of the chains of the buckets S in the order hash_table_resize
\* walks them: bucket by bucket from 0, each chain from its head
OldElements(store, S) ==
    IF S = {} THEN <<>> ELSE store[First(S)] \o OldElements(store, S \ {First(S)})

RECURSIVE add_scan(_, _, _, _)
\* the while (iter->next) loop of hash_table_add, iter a position in the chain:
\* the position of the first iter->next with the key's length and bytes, 0 if none
add_scan(chain, iter, key, key_len) ==
    IF iter + 1 > Len(chain) THEN 0
    ELSE IF chain[iter + 1].key_len # key_len THEN add_scan(chain, iter + 1, key, key_len)
    ELSE IF memcmp_eq(chain[iter + 1].key, key, key_len) THEN iter + 1
    ELSE add_scan(chain, iter + 1, key, key_len)

\* add_link with the slip of counting a replaced key as a new one
add_link_counting_replace(t, hash, element, key, key_len, oom, ev) ==
    LET chain == t.store_house[hash + 1]
        to_delete == add_scan(chain, 1, key, key_len)
    IN  IF chain = <<>>
        THEN R([t EXCEPT !.store_house[hash + 1] = <<element>>, !.key_count = @ + 1],
               0, ev, oom, "none")
        ELSE IF to_delete # 0
        THEN R([t EXCEPT !.store_house[hash + 1] = [chain EXCEPT ![to_delete] = element],
                         !.key_count = @ + 1],
               0, ev \o hash_table_element_delete(t, chain[to_delete]), oom, "none")
        ELSE R([t EXCEPT !.store_house[hash + 1] = Append(chain, element),
                         !.key_count = @ + 1],
               0, ev, oom, "none")

\* hash_table_add from "find the key position for chaining" on
add_link(t, hash, element, key, key_len, oom, ev) ==
    LET chain == t.store_house[hash + 1]
        to_delete == add_scan(chain, 1, key, key_len)
    IN  IF chain = <<>>
        THEN R([t EXCEPT !.store_house[hash + 1] = <<element>>, !.key_count = @ + 1],
               0, ev, oom, "none")
        ELSE IF to_delete # 0
        THEN R([t EXCEPT !.store_house[hash + 1] = [chain EXCEPT ![to_delete] = element]],
               0, ev \o hash_table_element_delete(t, chain[to_delete]), oom, "none")
        ELSE R([t EXCEPT !.store_house[hash + 1] = Append(chain, element),
                         !.key_count = @ + 1],
               0, ev, oom, "none")

\* hash_table_add from hash = HASH(key, key_len) on: the element is allocated
\* and filled as the mode says, then linked
add_element(t, key, key_len, value, value_len, oom, ev) ==
    LET hash == HASH(t, key, key_len)
        o1 == alloc_next(oom)
        o2 == alloc_next(o1)
        o3 == alloc_next(o2)
    IN  IF ~alloc_ok(oom) THEN R(t, 0 - 1, ev, o1, "none")
        ELSE IF t.mode = MODE_COPY
        THEN IF alloc_ok(o1) /\ alloc_ok(o2)
             THEN add_link(t, hash, Element(memdup(key), key_len, memdup(value), value_len),
                           key, key_len, o3, ev)
             ELSE R(t, 0 - 1, ev, o3, "none")
        ELSE IF t.mode = MODE_VALUEREF
        THEN IF alloc_ok(o1)
             THEN add_link(t, hash, Element(memdup(key), key_len, value, value_len),
                           key, key_len, o2, ev)
             ELSE R(t, 0 - 1, ev, o2, "none")
        ELSE add_link(t, hash, Element(key, key_len, value, value_len),
                      key, key_len, o1, ev)

\* add_preconditions with the slip of checking the key only
add_preconditions_key_only(key, value) == key # NULL

\* assert(key != NULL); assert(value != NULL);
add_preconditions(key, value) == key # NULL /\ value # NULL

\* resize_no_memory with the slip of not putting old_store back: the table is
\* left with the (NULL) result of calloc, no bucket holds a chain
resize_no_memory_losing_store(t, oom) ==
    R([t EXCEPT !.store_house = EmptyStore(t.key_num)], 0 - 2, <<>>, alloc_next(oom), "none")

\* hash_table_resize when calloc of the new store house fails:
\* table->store_house = old_store; return -2
resize_no_memory(t, oom) == R(t, 0 - 2, <<>>, alloc_next(oom), "none")

\* What a division by zero does (undefined behaviour): it traps (x86:
\* SIGFPE) or yields 0 (AArch64 udiv).
DivZero == {"trap", "zero"}

RECURSIVE hash_table_add(_, _, _, _, _, _, _)
RECURSIVE hash_table_resize(_, _, _, _)
RECURSIVE migrate(_, _, _, _, _)

\* ub: what key_count / key_num does when key_num is 0
hash_table_add(t, key, key_len, value, value_len, oom, ub) ==
    IF ~add_preconditions(key, value) THEN Killed(t, <<>>, oom, "SIGABRT")
    ELSE IF hash_table_count_keys(t) # t.key_count THEN Killed(t, <<>>, oom, "SIGABRT")
    ELSE IF t.key_num = 0 /\ ub = "trap" THEN Killed(t, <<>>, oom, "SIGFPE")
    ELSE LET ratio == IF t.key_num = 0 THEN 0 ELSE t.key_count \div t.key_num
             g == IF ratio >= t.key_ratio
                  THEN hash_table_resize(t, t.key_num * 2, oom, ub)
                  ELSE R(t, 0, <<>>, oom, "none")
         IN  IF g.sig # "none" THEN g
             ELSE add_element(g.t, key, key_len, value, value_len, g.oom, g.ev)

\* the two loops of hash_table_resize over old_store: every element is added
\* to the new store house (the return value of hash_table_add is not read)
migrate(t, etcs, oom, ub, ev) ==
    IF etcs = <<>> THEN R(t, 0, ev, oom, "none")
    ELSE LET etc == Head(etcs)
             a == hash_table_add(t, etc.key, etc.key_len, etc.value, etc.value_len, oom, ub)
         IN  IF a.sig # "none" THEN Killed(a.t, ev \o a.ev, a.oom, a.sig)
             ELSE migrate(a.t, Tail(etcs), a.oom, ub, ev \o a.ev)

\* hash_table_resize with the slip of moving the old chains without hashing
\* their keys again: every element ends in the first bucket of the new array
resize_without_rehash(t, len, oom, ub) ==
    IF ~alloc_ok(oom) THEN resize_no_memory(t, oom)
    ELSE LET old == OldElements(t.store_house, Occupied(t.store_house, t.key_num))
         IN  R([t EXCEPT !.store_house = [EmptyStore(len) EXCEPT ![1] = old],
                         !.key_num = len % UINT16,
                         !.key_count = Len(old)],
               0, <<>>, alloc_next(oom), "none")

\* ub: what the divisions by key_num do in the adds of the migration when
\* the new key_num is 0
hash_table_resize(t, len, oom, ub) ==
    IF ~alloc_ok(oom) THEN resize_no_memory(t, oom)
    ELSE LET mode == t.mode
             fooled == [t EXCEPT !.store_house = EmptyStore(len),
                                 !.mode = MODE_ALLREF,
                                 !.key_num = len % UINT16,
                                 !.key_count = 0]
             m == migrate(fooled, OldElements(t.store_house, Occupied(t.store_house, t.key_num)),
                          alloc_next(oom), ub, <<>>)
         IN  IF m.sig # "none" THEN m
             ELSE R([m.t EXCEPT !.mode = mode], 0, m.ev, m.oom, "none")

RECURSIVE chain_find(_, _, _, _)
\* the search loop of remove, lookup, lookup_extended and has_key: the position
\* of the first element from curr on with the key's length and bytes, 0 if none
chain_find(chain, curr, key, key_len) ==
    IF curr > Len(chain) THEN 0
    ELSE IF chain[curr].key_len # key_len THEN chain_find(chain, curr + 1, key, key_len)
    ELSE IF memcmp_eq(chain[curr].key, key, key_len) THEN curr
    ELSE chain_find(chain, curr + 1, key, key_len)

\* a chain without its element at position p
Unlink(chain, p) == SubSeq(chain, 1, p - 1) \o SubSeq(chain, p + 1, Len(chain))

\* hash_table_remove_internal from hash = HASH(key, key_len) on
remove_unlink(t, key, key_len, notify, oom, ev) ==
    LET hash == HASH(t, key, key_len)
        chain == t.store_house[hash + 1]
        curr == chain_find(chain, 1, key, key_len)
    IN  IF chain = <<>> THEN R(t, 0 - 1, ev, oom, "none")
        ELSE IF curr = 0 THEN R(t, 0 - 1, ev, oom, "none")
        ELSE R([t EXCEPT !.store_house[hash + 1] = Unlink(chain, curr),
                         !.key_count = @ - 1],
               0, ev \o hash_table_element_delete_internal(t, chain[curr], notify),
               oom, "none")

\* ub: what key_num / key_count does when key_count is 0
hash_table_remove_internal(t, key, key_len, notify, oom, ub) ==
    IF hash_table_count_keys(t) # t.key_count THEN Killed(t, <<>>, oom, "SIGABRT")
    ELSE IF t.key_count = 0 /\ ub = "trap" THEN Killed(t, <<>>, oom, "SIGFPE")
    ELSE LET ratio == IF t.key_count = 0 THEN 0 ELSE t.key_num \div t.key_count
             s == IF ratio >= t.key_ratio /\ notify
                  THEN hash_table_resize(t, t.key_num \div 2, oom, ub)
                  ELSE R(t, 0, <<>>, oom, "none")
         IN  IF s.sig # "none" THEN s
             ELSE remove_unlink(s.t, key, key_len, notify, s.oom, s.ev)

hash_table_remove(t, key, key_len, oom, ub) ==
    hash_table_remove_internal(t, key, key_len, TRUE, oom, ub)

hash_table_steal(t, key, key_len, oom, ub) ==
    hash_table_remove_internal(t, key, key_len, FALSE, oom, ub)

\* the value pointer hash_table_lookup returns (NULL: key not found)
hash_table_lookup(t, key, key_len) ==
    LET chain == t.store_house[HASH(t, key, key_len) + 1]
        temp == chain_find(chain, 1, key, key_len)
    IN  IF chain = <<>> THEN NULL
        ELSE IF temp = 0 THEN NULL
        ELSE chain[temp].value

hash_table_has_key(t, key, key_len) ==
    LET chain == t.store_house[HASH(t, key, key_len) + 1]
        iter == chain_find(chain, 1, key, key_len)
    IN  IF chain = <<>> THEN 0
        ELSE IF iter = 0 THEN 0
        ELSE 1

(* hash_table_replace is declared in src/hashtable.h (lines 218-222) and used
   by the tests, but src/hashtable.c does not define it.  It is modelled from
   its description: it behaves like an insert (preconditions, growth,
   allocation per mode, the chain is walked for an entry with equal key_len
   and bytes, the new entry takes its place), except that the value destroy
   function is not invoked on the entry replaced. *)

\* what releasing a replaced entry does: its storage is freed per mode, the
\* value destroy function is skipped
replace_delete(t, element) ==
    IF t.mode = MODE_COPY
    THEN << <<"free", element.value>>, <<"free", element.key>> >>
    ELSE IF t.mode = MODE_VALUEREF
    THEN << <<"free", element.key>> >>
    ELSE IF t.key_destroy_fun THEN << <<"key_destroy_fun", element.key>> >>
    ELSE <<>>

\* the new entry is spliced in place of the entry with the key, or appended
\* when there is none
replace_link(t, hash, element, key, key_len, oom, ev) ==
    LET chain == t.store_house[hash + 1]
        found == chain_find(chain, 1, key, key_len)
    IN  IF found # 0
        THEN R([t EXCEPT !.store_house[hash + 1] = [chain EXCEPT ![found] = element]],
               0, ev \o replace_delete(t, chain[found]), oom, "none")
        ELSE R([t EXCEPT !.store_house[hash + 1] = Append(chain, element),
                         !.key_count = @ + 1],
               0, ev, oom, "none")

\* the new entry is allocated per mode, as by an insert
replace_element(t, key, key_len, value, value_len, oom, ev) ==
    LET hash == HASH(t, key, key_len)
        o1 == alloc_next(oom)
        o2 == alloc_next(o1)
        o3 == alloc_next(o2)
    IN  IF ~alloc_ok(oom) THEN R(t, 0 - 1, ev, o1, "none")
        ELSE IF t.mode = MODE_COPY
        THEN IF alloc_ok(o1) /\ alloc_ok(o2)
             THEN replace_link(t, hash, Element(memdup(key), key_len, memdup(value), value_len),
                               key, key_len, o3, ev)
             ELSE R(t, 0 - 1, ev, o3, "none")
        ELSE IF t.mode = MODE_VALUEREF
        THEN IF alloc_ok(o1)
             THEN replace_link(t, hash, Element(memdup(key), key_len, value, value_len),
                               key, key_len, o2, ev)
             ELSE R(t, 0 - 1, ev, o2, "none")
        ELSE replace_link(t, hash, Element(key, key_len, value, value_len),
                          key, key_len, o1, ev)

hash_table_replace(t, key, key_len, value, value_len, oom, ub) ==
    IF ~add_preconditions(key, value) THEN Killed(t, <<>>, oom, "SIGABRT")
    ELSE IF t.key_num = 0 /\ ub = "trap" THEN Killed(t, <<>>, oom, "SIGFPE")
    ELSE LET ratio == IF t.key_num = 0 THEN 0 ELSE t.key_count \div t.key_num
             g == IF ratio >= t.key_ratio
                  THEN hash_table_resize(t, t.key_num * 2, oom, ub)
                  ELSE R(t, 0, <<>>, oom, "none")
         IN  IF g.sig # "none" THEN g
             ELSE replace_element(g.t, key, key_len, value, value_len, g.oom, g.ev)

RECURSIVE drain(_, _, _, _)
\* the calls hash_table_destroy_internal makes while it empties one chain
drain(t, chain, notify, ev) ==
    IF chain = <<>> THEN ev
    ELSE drain(t, Tail(chain), notify,
               ev \o hash_table_element_delete_internal(t, Head(chain), notify))

RECURSIVE destroy_walk(_, _, _, _)
\* the for loop of hash_table_destroy_internal over the buckets S that hold a
\* chain: a bucket is emptied, key_count is decremented once per element, and
\* the loop is left as soon as key_count is 0 after a bucket.  (An empty bucket
\* changes nothing, so only bucket 0 can leave the loop without being in S;
\* key_count is a size_t and is never decremented below 0 while it counts the
\* elements, see CountInv.)
destroy_walk(t, S, notify, ev) ==
    IF S = {} THEN R(t, 0, ev, 0, "none")
    ELSE LET i == First(S)
             chain == t.store_house[i]
             emptied == [t EXCEPT !.store_house[i] = <<>>,
                                  !.key_count = @ - Len(chain)]
             calls == drain(t, chain, notify, ev)
         IN  IF emptied.key_count = 0 THEN R(emptied, 0, calls, 0, "none")
             ELSE destroy_walk(emptied, S \ {i}, notify, calls)

\* t = NULL: the table pointer passed is NULL, assert(table != NULL) fails
hash_table_destroy_internal(t, notify) ==
    IF t = NULL THEN Killed(t, <<>>, 0, "SIGABRT")
    ELSE IF t.key_count = 0 /\ t.store_house[1] = <<>> THEN R(t, 0, <<>>, 0, "none")
    ELSE destroy_walk(t, Occupied(t.store_house, t.key_num), notify, <<>>)

hash_table_destroy(t) == hash_table_destroy_internal(t, TRUE)

\* hash_table_free with the slip of asking for notification
hash_table_free_notifying(t) == hash_table_destroy_internal(t, TRUE)

hash_table_free(t) == hash_table_destroy_internal(t, FALSE)

(* ------------------------------ iteration ----------------------------- *)

\* What the word behind the bucket array, store_house[key_num], reads as (an
\* out-of-bounds read of the calloc'ed block): NULL or anything else.
OobWord == {"null", "junk"}
\* What following a junk element pointer does: the process faults, or the
\* bytes there are taken for an element whose next is NULL.
JunkDeref == {"fault", "garbage"}
\* the key pointer read from a junk element
JUNK == [buf |-> 0, copy |-> TRUE]

\* while ((iter_pos <= key_num) && (store_house[iter_pos] == NULL)) iter_pos++
\* started with iter_pos = pos: the cursor it stops at
iter_skip(t, pos, ub) ==
    LET ahead == {i \in Occupied(t.store_house, t.key_num) : i - 1 >= pos}
    IN  IF pos > t.key_num THEN pos
        ELSE IF ahead # {} THEN First(ahead) - 1
        ELSE IF ub = "null" THEN (t.key_num + 1) % UINT16
        ELSE t.key_num

\* the indices i at which that loop reads store_house[i]
iter_skip_reads(t, pos) ==
    LET ahead == {i \in Occupied(t.store_house, t.key_num) : i - 1 >= pos}
    IN  IF pos > t.key_num THEN {}
        ELSE IF ahead # {} THEN pos..(First(ahead) - 1)
        ELSE pos..t.key_num

hash_table_iter_keys_reset(t, ub) ==
    IF t.key_count > 0 THEN [t EXCEPT !.iter_pos = iter_skip(t, 0, ub)]
    ELSE [t EXCEPT !.iter_pos = 0]

hash_table_iter_keys_is_done(t) == (t.key_count = 0) \/ (t.iter_pos > t.key_num)

\* hash_table_iter_keys_next with the static element_index at idx: the result
\* [t, ret, ev, oom, sig] with ret the key pointer returned, and idx the static
\* afterwards
hash_table_iter_keys_next(t, idx, ub) ==
    LET killed(sig) == [t |-> t, ret |-> NULL, idx |-> idx, sig |-> sig]
        chain == t.store_house[t.iter_pos + 1]
    IN  IF t.iter_pos > t.key_num THEN killed("SIGABRT")
        ELSE IF hash_table_iter_keys_is_done(t) THEN killed("SIGABRT")
        ELSE IF t.iter_pos >= Len(t.store_house)
        THEN IF ub = "fault" THEN killed("SIGSEGV")
             ELSE [t |-> [t EXCEPT !.iter_pos = (t.iter_pos + 1) % UINT16],
                   ret |-> JUNK, idx |-> 0, sig |-> "none"]
        ELSE IF idx >= Len(chain) THEN killed("SIGSEGV")
        ELSE IF idx + 1 = Len(chain)
        THEN [t |-> [t EXCEPT !.iter_pos = iter_skip(t, (t.iter_pos + 1) % UINT16, ub)],
              ret |-> chain[idx + 1].key, idx |-> 0, sig |-> "none"]
        ELSE [t |-> t, ret |-> chain[idx + 1].key,
              idx |-> (idx + 1) % UINT16, sig |-> "none"]

\* the indices at which hash_table_iter_keys_reset reads store_house
reset_reads(t) == IF t.key_count > 0 THEN iter_skip_reads(t, 0) ELSE {}

\* the indices at which hash_table_iter_keys_next reads store_house, with the
\* static element_index at idx
next_reads(t, idx) ==
    IF t.iter_pos > t.key_num \/ hash_table_iter_keys_is_done(t) THEN {}
    ELSE IF t.iter_pos >= Len(t.store_house) THEN {t.iter_pos}
    ELSE IF idx + 1 = Len(t.store_house[t.iter_pos + 1])
    THEN {t.iter_pos} \cup iter_skip_reads(t, (t.iter_pos + 1) % UINT16)
    ELSE {t.iter_pos}

(* ------------------------------ actions ------------------------------- *)

NoCall == [op |-> "new", key |-> 0, value |-> 0, len |-> 0, ret |-> 0, ev |-> <<>>]

Call(op, key, value, len, r) ==
    [op |-> op, key |-> key, value |-> value, len |-> len, ret |-> r.ret, ev |-> r.ev]

\* The state after a public call that may change the table and that ended as
\* r says.  rec: whether the call is recorded in the history variable last.
Mutated(rec, op, key, value, len, r) ==
    /\ table' = r.t
    /\ proc' = IF r.sig = "none" THEN "live" ELSE r.sig
    /\ last' = IF rec THEN Call(op, key, value, len, r) ELSE NoCall
    /\ visited' = <<>>
    /\ UNCHANGED element_index

\* hash_table_new_full(mode, key_destroy_fun, value_destroy_fun) with both
\* functions given, for the three modes, and hash_table_new(MODE_ALLREF)
Configs ==
    (Modes \X {<<TRUE, TRUE>>}) \cup {<<MODE_ALLREF, <<FALSE, FALSE>>>>}

Init ==
    /\ \E c \in Configs : table = hash_table_new_full(c[1], c[2][1], c[2][2])
    /\ element_index = 0
    /\ proc = "live"
    /\ last = NoCall
    /\ visited = <<>>

\* a table is created after the previous one was destroyed
New ==
    /\ proc = "freed"
    /\ \E c \in Configs : table' = hash_table_new_full(c[1], c[2][1], c[2][2])
    /\ proc' = "live"
    /\ last' = NoCall
    /\ visited' = <<>>
    /\ UNCHANGED element_index

\* the outcomes of the divisions by a key_num of n that a call can meet
CapacityOutcomes(n) == IF n = 0 THEN DivZero ELSE {"defined"}

Add(K, V, O, rec) ==
    /\ proc = "live"
    /\ \E k \in K, v \in V, oom \in O, ub \in CapacityOutcomes(table.key_num) :
          Mutated(rec, "add", k, v, 0,
                  hash_table_add(table, Ptr(k), KeyLen(k), Ptr(v), VALUE_LEN, oom, ub))

\* hash_table_add called with a NULL key, a NULL value or both (key_len 0
\* with a NULL key)
AddNull(K, V) ==
    /\ proc = "live"
    /\ \E key \in {NULL} \cup {Ptr(k) : k \in K}, value \in {NULL} \cup {Ptr(v) : v \in V} :
          /\ key = NULL \/ value = NULL
          /\ Mutated(TRUE, "add_null", key.buf, value.buf, 0,
                     hash_table_add(table, key, IF key = NULL THEN 0 ELSE KeyLen(key.buf),
                                    value, VALUE_LEN, 0, "defined"))

\* hash_table_destroy(NULL): the table the program holds is not touched
DestroyNull ==
    /\ proc = "live"
    /\ LET r == hash_table_destroy(NULL)
       IN  /\ proc' = IF r.sig = "none" THEN "live" ELSE r.sig
           /\ last' = Call("destroy_null", 0, 0, 0, r)
    /\ visited' = <<>>
    /\ UNCHANGED <<table, element_index>>

\* hash_table_replace of a key that has an entry (its precondition)
Replace(K, V, O, rec) ==
    /\ proc = "live"
    /\ \E k \in K, v \in V, oom \in O, ub \in CapacityOutcomes(table.key_num) :
          /\ hash_table_has_key(table, Ptr(k), KeyLen(k)) = 1
          /\ Mutated(rec, "replace", k, v, 0,
                     hash_table_replace(table, Ptr(k), KeyLen(k), Ptr(v), VALUE_LEN, oom, ub))

\* the outcomes of key_num / key_count that the call can meet
DivOutcomes == IF table.key_count = 0 THEN DivZero ELSE {"defined"}

\* hash_table_remove allocates only when it shrinks the table first
RemoveOoms(O) ==
    IF table.key_count # 0 /\ (table.key_num \div table.key_count) >= table.key_ratio
    THEN O ELSE {0}

Remove(K, O, rec) ==
    /\ proc = "live"
    /\ \E k \in K, oom \in RemoveOoms(O), ub \in DivOutcomes :
          Mutated(rec, "remove", k, 0, 0,
                  hash_table_remove(table, Ptr(k), KeyLen(k), oom, ub))

\* hash_table_steal never allocates (no shrink without notify)
Steal(K, rec) ==
    /\ proc = "live"
    /\ \E k \in K, ub \in DivOutcomes :
          Mutated(rec, "steal", k, 0, 0,
                  hash_table_steal(table, Ptr(k), KeyLen(k), 0, ub))

Resize(L, O, rec) ==
    /\ proc = "live"
    /\ \E len \in L, oom \in O :
          \E ub \in CapacityOutcomes(len % UINT16) :
              Mutated(rec, "resize", 0, 0, len, hash_table_resize(table, len, oom, ub))

\* hash_table_destroy: the table is gone afterwards
Destroy ==
    /\ proc = "live"
    /\ LET r == hash_table_destroy(table)
       IN  /\ table' = r.t
           /\ proc' = "freed"
           /\ last' = Call("destroy", 0, 0, 0, r)
    /\ visited' = <<>>
    /\ UNCHANGED element_index

\* hash_table_free: the table is gone afterwards; last.len is the number of
\* entries it held
Free ==
    /\ proc = "live"
    /\ LET r == hash_table_free(table)
       IN  /\ table' = r.t
           /\ proc' = "freed"
           /\ last' = Call("free", 0, 0, table.key_count, r)
    /\ visited' = <<>>
    /\ UNCHANGED element_index

IterReset ==
    /\ proc = "live"
    /\ \E ub \in OobWord :
          table' = hash_table_iter_keys_reset(table, ub)
    /\ last' = [NoCall EXCEPT !.op = "iter_reset"]
    /\ visited' = <<>>
    /\ UNCHANGED <<element_index, proc>>

\* last.op is "iter_next" while the call belongs to a pass that began with
\* hash_table_iter_keys_reset and met no call that changes the table
IterNext ==
    /\ proc = "live"
    /\ \E ub \in (IF table.iter_pos >= Len(table.store_house) THEN JunkDeref ELSE OobWord) :
          LET r == hash_table_iter_keys_next(table, element_index, ub)
          IN  /\ table' = r.t
              /\ element_index' = r.idx
              /\ proc' = IF r.sig = "none" THEN "live" ELSE r.sig
              /\ last' = [NoCall EXCEPT
                              !.op = IF last.op \in {"iter_reset", "iter_next"}
                                     THEN "iter_next" ELSE "iter_next_stray",
                              !.key = r.ret.buf]
              /\ visited' = IF r.sig = "none" THEN Append(visited, r.ret) ELSE visited

(* --------------------------- specifications --------------------------- *)

Ooms == 0..MaxOom
ResizeLens == 1..MaxResizeLen

\* every call is recorded in last
Next ==
    \/ Add(KeyBufs, ValueBufs, Ooms, TRUE)
    \/ Remove(KeyBufs, Ooms, TRUE)
    \/ Steal(KeyBufs, TRUE)
    \/ Resize(ResizeLens, Ooms, TRUE)
    \/ Destroy
    \/ Free
    \/ New

Spec == Init /\ [][Next]_vars

\* The table alone: the calls that change it are not recorded in last (only
\* hash_table_destroy is), over the smaller sets of inputs.
SmallKeys == 2
SmallValues == 1
SmallResizeLen == 2
SmallOom == 1

NextT ==
    \/ Add(1..SmallKeys, 1..SmallValues, 0..SmallOom, FALSE)
    \/ Remove(1..SmallKeys, 0..SmallOom, FALSE)
    \/ Steal(1..SmallKeys, FALSE)
    \/ Resize(1..SmallResizeLen, 0..SmallOom, FALSE)
    \/ Destroy
    \/ Free
    \/ New

SpecT == Init /\ [][NextT]_vars

\* the table alone, with the calls that pass a NULL key, value or table
NextN ==
    \/ Add(1..SmallKeys, 1..SmallValues, 0..SmallOom, FALSE)
    \/ Remove(1..SmallKeys, 0..SmallOom, FALSE)
    \/ Resize(1..SmallResizeLen, 0..SmallOom, FALSE)
    \/ AddNull(1..SmallKeys, 1..SmallValues)
    \/ DestroyNull
    \/ Destroy
    \/ New

SpecN == Init /\ [][NextN]_vars

\* replacing values: the calls of hash_table_replace are recorded in last,
\* the calls that fill and resize the table are not and meet no allocation
\* failure
NextR ==
    \/ Add(KeyBufs, ValueBufs, {0}, FALSE)
    \/ Resize(ResizeLens, {0}, FALSE)
    \/ Replace(KeyBufs, ValueBufs, Ooms, TRUE)
    \/ Destroy
    \/ New

SpecR == Init /\ [][NextR]_vars

\* resizing: the direct calls of hash_table_resize are recorded in last, the
\* other calls that change the table are not
NextZ ==
    \/ Add(1..SmallKeys, 1..SmallValues, 0..SmallOom, FALSE)
    \/ Remove(1..SmallKeys, 0..SmallOom, FALSE)
    \/ Resize(1..SmallResizeLen, 0..SmallOom, TRUE)
    \/ Destroy
    \/ New

SpecZ == Init /\ [][NextZ]_vars

\* An allocation failure late in hash_table_add: the growth of a table of one
\* bucket with four entries allocates the new array and four elements before
\* hash_table_add allocates its own element, the GrowOom-th allocation.
GrowOom == 6

\* the calls of hash_table_add that meet an allocation failure are recorded
\* in last, the calls that fill and resize the table are not and meet none
NextG ==
    \/ Add(KeyBufs, ValueBufs, {0}, FALSE)
    \/ Resize(ResizeLens, {0}, FALSE)
    \/ Add(KeyBufs, ValueBufs, 1..GrowOom, TRUE)
    \/ Destroy
    \/ New

SpecG == Init /\ [][NextG]_vars

\* automatic resizing only: hash_table_resize is never called directly
NextAuto ==
    \/ Add(1..SmallKeys, 1..SmallValues, 0..SmallOom, TRUE)
    \/ Remove(1..SmallKeys, 0..SmallOom, TRUE)
    \/ Steal(1..SmallKeys, TRUE)

SpecAuto == Init /\ [][NextAuto]_vars

\* key iteration, between calls that change the table
NextIter ==
    \/ Add(1..SmallKeys, 1..SmallValues, 0..SmallOom, FALSE)
    \/ Remove(1..SmallKeys, 0..SmallOom, FALSE)
    \/ Resize(1..SmallResizeLen, 0..SmallOom, FALSE)
    \/ IterReset
    \/ IterNext
    \/ Destroy
    \/ New

SpecIter == Init /\ [][NextIter]_vars

\* the width of key_num: hash_table_resize is called with the lengths 1 and
\* 2^16 (the length a doubling from 2^15 asks for); no allocation fails
WideLens == {1, UINT16}

NextW ==
    \/ Add(1..SmallKeys, 1..SmallValues, {0}, TRUE)
    \/ Remove(1..SmallKeys, {0}, TRUE)
    \/ Resize(WideLens, {0}, TRUE)
    \/ Destroy
    \/ New

SpecW == Init /\ [][NextW]_vars

(* ------------------------------- claims ------------------------------- *)

\* every element of the table, bucket by bucket
AllEntries(t) ==
    OldElements(t.store_house, Occupied(t.store_house, Len(t.store_house)))

Range(seq) == {seq[i] : i \in DOMAIN seq}

\* the keys stored, as (bytes, key_len)
PresentKeys(t) ==
    {<<SubSeq(KeyBytes[e.key.buf], 1, e.key_len), e.key_len>> : e \in Range(AllEntries(t))}

SameKey(a, b) == a.key_len = b.key_len /\ memcmp_eq(a.key, b.key, a.key_len)

Lookup(t, k) == hash_table_lookup(t, Ptr(k), KeyLen(k))
HasKey(t, k) == hash_table_has_key(t, Ptr(k), KeyLen(k))

CountIn(seq, x) == Cardinality({i \in DOMAIN seq : seq[i] = x})
SameBag(s1, s2) ==
    /\ Len(s1) = Len(s2)
    /\ \A x \in Range(s1) \cup Range(s2) : CountIn(s1, x) = CountIn(s2, x)

DestroyFunCalls(ev) ==
    {i \in DOMAIN ev : ev[i][1] \in {"key_destroy_fun", "value_destroy_fun"}}

\* C1: no bucket chain holds two entries with the same (key bytes, key_len),
\* and hash_table_len equals the number of distinct keys present.
C1_NoDuplicateKeys ==
    proc = "live" =>
        /\ \A i \in DOMAIN table.store_house :
              \A p, q \in DOMAIN table.store_house[i] :
                 p # q => ~SameKey(table.store_house[i][p], table.store_house[i][q])
        /\ hash_table_len(table) = Cardinality(PresentKeys(table))

\* C2: after hash_table_add(k, v) returns 0, hash_table_lookup(k) returns v,
\* and the value a present key maps to changes only by a call that adds,
\* removes or steals that key (or destroys the table).
C2_RoundTrip ==
    [][ /\ (proc' = "live" /\ last'.op = "add" /\ last'.ret = 0)
            => Lookup(table', last'.key).buf = last'.value
        /\ \A k \in KeyBufs :
              ( /\ proc = "live" /\ proc' = "live"
                /\ HasKey(table, k) = 1
                /\ last'.op \in {"add", "remove", "steal", "resize"}
                /\ last'.key # k )
              => Lookup(table', k) = Lookup(table, k) ]_vars

\* C3: when hash_table_remove(k) returns 0, hash_table_has_key(k) is 0
\* afterwards, hash_table_len has decreased by exactly 1 and every other key
\* maps to the same value as before.
C3_RemoveEffect ==
    [][ (proc = "live" /\ proc' = "live" /\ last'.op = "remove" /\ last'.ret = 0)
        => /\ HasKey(table', last'.key) = 0
           /\ hash_table_len(table') = hash_table_len(table) - 1
           /\ \A k \in KeyBufs \ {last'.key} : Lookup(table', k) = Lookup(table, k) ]_vars

\* C4: hash_table_remove and hash_table_steal on an empty table return -1
\* without faulting.
C4_RemoveOnEmpty ==
    [][ (proc = "live" /\ table.key_count = 0 /\ last'.op \in {"remove", "steal"})
        => (proc' = "live" /\ last'.ret = 0 - 1) ]_vars

\* C5: on a non-empty table, hash_table_remove / hash_table_steal of a key that
\* is not present returns -1, invokes no destroy callback and leaves
\* hash_table_len and the value of every present key unchanged.
C5_RemoveAbsent ==
    [][ ( /\ proc = "live" /\ table.key_count > 0
          /\ last'.op \in {"remove", "steal"}
          /\ HasKey(table, last'.key) = 0 )
        => /\ proc' = "live"
           /\ last'.ret = 0 - 1
           /\ DestroyFunCalls(last'.ev) = {}
           /\ hash_table_len(table') = hash_table_len(table)
           /\ \A k \in KeyBufs : Lookup(table', k) = Lookup(table, k) ]_vars

\* C6: between public calls key_count equals the number of entries reachable
\* by walking every bucket chain, so the assertion of hash_table_add and
\* hash_table_remove_internal never fails.
C6_CountInv ==
    /\ proc # "SIGABRT"
    /\ proc = "live" => table.key_count = Len(AllEntries(table))

\* a table that was resized directly and holds three entries in one chain
C6_Witness ==
    /\ proc = "live"
    /\ table.key_num = 1
    /\ table.key_count = 3
    /\ Len(table.store_house[1]) = 3

\* C7: under automatic resizing only, key_num never goes below INITIAL_SIZE.
C7_Floor == proc = "live" => table.key_num >= INITIAL_SIZE

\* C8: after a hash_table_resize that returns 0, every key present before is
\* still present and maps to the same value, and hash_table_len is unchanged.
C8_ResizePreserves ==
    [][ (proc = "live" /\ proc' = "live" /\ last'.op = "resize" /\ last'.ret = 0)
        => /\ hash_table_len(table') = hash_table_len(table)
           /\ \A k \in KeyBufs :
                 HasKey(table, k) = 1
                 => (HasKey(table', k) = 1 /\ Lookup(table', k) = Lookup(table, k)) ]_vars

\* C9: a pass over a table of N distinct keys that is not changed meanwhile
\* (reset, then next while is_done is false) ends after exactly N calls of
\* hash_table_iter_keys_next and returns every present key exactly once.
C9_IterationComplete ==
    last.op \in {"iter_reset", "iter_next"} =>
        /\ proc # "SIGSEGV"
        /\ proc = "live" =>
              /\ \A i \in DOMAIN visited : visited[i] # JUNK
              /\ \A i, j \in DOMAIN visited :
                    i # j => ~SameKey([key |-> visited[i], key_len |-> KeyLen(visited[i].buf)],
                                      [key |-> visited[j], key_len |-> KeyLen(visited[j].buf)])
              /\ IF hash_table_iter_keys_is_done(table)
                 THEN Len(visited) = Cardinality(PresentKeys(table))
                 ELSE Len(visited) < Cardinality(PresentKeys(table))

\* the calls hash_table_destroy has to make in MODE_ALLREF: both destroy
\* functions once per entry
EntryCalls(entries) ==
    [i \in 1..(2 * Len(entries)) |->
        IF i % 2 = 1 THEN <<"key_destroy_fun", entries[(i + 1) \div 2].key>>
        ELSE <<"value_destroy_fun", entries[i \div 2].value>>]

\* C10: in MODE_ALLREF with both destroy functions configured,
\* hash_table_destroy invokes key_destroy_fun and value_destroy_fun exactly
\* once for each entry in the table at teardown, and for nothing else.
C10_DestroyCalls ==
    [][ ( /\ proc = "live" /\ proc' = "freed" /\ last'.op = "destroy"
          /\ table.mode = MODE_ALLREF
          /\ table.key_destroy_fun /\ table.value_destroy_fun )
        => SameBag(last'.ev, EntryCalls(AllEntries(table))) ]_vars

\* a MODE_ALLREF table with both functions was destroyed with two entries or more
C10_Witness ==
    /\ proc = "freed"
    /\ last.op = "destroy"
    /\ table.mode = MODE_ALLREF
    /\ table.key_destroy_fun /\ table.value_destroy_fun
    /\ Len(last.ev) >= 4

\* C11: hash_table_free never invokes key_destroy_fun or value_destroy_fun,
\* whatever the mode and the contents; every entry is released with the table.
C11_FreeNoCallbacks ==
    [][ (proc = "live" /\ last'.op = "free")
        => /\ proc' = "freed"
           /\ DestroyFunCalls(last'.ev) = {}
           /\ AllEntries(table') = <<>>
           /\ table'.key_count = 0 ]_vars

\* a MODE_ALLREF table with both destroy functions was freed with two entries
\* or more
C11_Witness ==
    /\ proc = "freed"
    /\ last.op = "free"
    /\ table.mode = MODE_ALLREF
    /\ table.key_destroy_fun /\ table.value_destroy_fun
    /\ last.len >= 2

\* the free() calls on key or value blocks among the calls ev
FreeCalls(ev) == {i \in DOMAIN ev : ev[i][1] = "free"}

\* the value_destroy_fun calls among the calls ev
ValueDestroyCalls(ev) == {i \in DOMAIN ev : ev[i][1] = "value_destroy_fun"}

\* C12: in MODE_VALUEREF every call that deletes entries (remove, steal,
\* destroy, free, add of a key already present) frees the table's copy of the
\* key exactly once per entry that leaves the table, and calls
\* value_destroy_fun only when notification is enabled (never from steal or
\* free).
C12_ValueRefKeyFreedOnce ==
    [][ ( /\ proc = "live" /\ proc' \in {"live", "freed"}
          /\ table.mode = MODE_VALUEREF
          /\ last'.op \in {"add", "remove", "steal", "destroy", "free"} )
        => /\ Cardinality(FreeCalls(last'.ev))
                = Len(AllEntries(table))
                  + (IF last'.op = "add" /\ last'.ret = 0 THEN 1 ELSE 0)
                  - Len(AllEntries(table'))
           /\ last'.op \in {"steal", "free"} => ValueDestroyCalls(last'.ev) = {} ]_vars

\* C13: hash_table_destroy(NULL) and hash_table_add with a NULL key or a NULL
\* value end in an assertion failure (SIGABRT) with the table as it was and
\* nothing freed or destroyed.
C13_NullRejected ==
    [][ (proc = "live" /\ last'.op \in {"add_null", "destroy_null"})
        => /\ proc' = "SIGABRT"
           /\ table' = table
           /\ last'.ev = <<>> ]_vars

\* hash_table_add with a key and a NULL value aborted on a table that holds
\* an entry
C13_Witness ==
    /\ proc = "SIGABRT"
    /\ last.op = "add_null"
    /\ last.key # 0 /\ last.value = 0
    /\ table.key_count >= 1

\* C14: hash_table_replace(k, v') of a present key k that returns 0 makes
\* hash_table_lookup(k) return v', keeps hash_table_has_key(k) true and
\* hash_table_len unchanged, and calls value_destroy_fun on nothing.
C14_ReplaceEffect ==
    [][ ( /\ proc = "live" /\ proc' = "live"
          /\ last'.op = "replace" /\ last'.ret = 0
          /\ HasKey(table, last'.key) = 1 )
        => /\ Lookup(table', last'.key).buf = last'.value
           /\ HasKey(table', last'.key) = 1
           /\ hash_table_len(table') = hash_table_len(table)
           /\ ValueDestroyCalls(last'.ev) = {} ]_vars

\* C15: started from the same table with the same key (and the same outcome
\* of the allocator and of the division), hash_table_steal and
\* hash_table_remove return the same code and leave the same mapping, key_count
\* and key_num; steal calls no destroy function.
C15_StealLikeRemove ==
    proc = "live" =>
        \A k \in KeyBufs, ub \in DivOutcomes :
            LET r == hash_table_remove(table, Ptr(k), KeyLen(k), 0, ub)
                st == hash_table_steal(table, Ptr(k), KeyLen(k), 0, ub)
            IN  /\ st.sig = r.sig
                /\ st.ret = r.ret
                /\ st.t.key_count = r.t.key_count
                /\ st.t.key_num = r.t.key_num
                /\ \A j \in KeyBufs : Lookup(st.t, j) = Lookup(r.t, j)
                /\ DestroyFunCalls(st.ev) = {}

\* C16: when hash_table_resize returns -2 (the new bucket array could not be
\* allocated) the table is exactly as before the call and nothing was freed
\* or destroyed.
C16_ResizeNoMemory ==
    [][ (proc = "live" /\ last'.op = "resize" /\ last'.ret = 0 - 2)
        => /\ proc' = "live"
           /\ table' = table
           /\ last'.ev = <<>> ]_vars

\* hash_table_resize returned -2 on a table that holds two entries or more
C16_Witness ==
    /\ proc = "live"
    /\ last.op = "resize"
    /\ last.ret = 0 - 2
    /\ table.key_count >= 2

\* C17: when hash_table_add returns -1 (the allocation of the element or of
\* the key / value copy failed) the table is unmodified: key_count, key_num and
\* every chain are as before the call.
C17_AddNoMemory ==
    [][ (proc = "live" /\ last'.op = "add" /\ last'.ret = 0 - 1)
        => /\ proc' = "live"
           /\ table'.key_count = table.key_count
           /\ table'.key_num = table.key_num
           /\ table'.store_house = table.store_house ]_vars

\* C18: a hash_table_resize that returns 0 has kept every key that was
\* present, and one that does not return 0 has left the table unchanged.
C18_ResizeAllOrNothing ==
    [][ (proc = "live" /\ proc' = "live" /\ last'.op = "resize")
        => IF last'.ret = 0
           THEN \A k \in KeyBufs : HasKey(table, k) = 1 => HasKey(table', k) = 1
           ELSE table' = table ]_vars

\* C19: hash_table_resize returns -1 when the table holds no elements, -2 when
\* the new bucket array cannot be allocated, and 0 otherwise.
C19_ResizeReturns ==
    [][ (proc = "live" /\ last'.op = "resize")
        => /\ last'.ret \in {0, 0 - 1, 0 - 2}
           /\ table.key_count = 0 => last'.ret \in {0 - 1, 0 - 2}
           /\ table.key_count > 0 => last'.ret \in {0, 0 - 2} ]_vars

\* C20: hash_table_add doubles key_num exactly when key_count / key_num >=
\* key_ratio on entry, the new entry is then stored in the bucket its hash
\* gives under the doubled capacity; otherwise key_num is unchanged.
C20_GrowthRule ==
    [][ (proc = "live" /\ proc' = "live" /\ last'.op = "add")
        => IF (table.key_count \div table.key_num) >= table.key_ratio
           THEN /\ table'.key_num = 2 * table.key_num
                /\ last'.ret = 0 =>
                      \E e \in Range(table'.store_house[
                                  hash_table_do_hash(Ptr(last'.key), KeyLen(last'.key),
                                                     2 * table.key_num) + 1]) :
                          SameKey(e, [key |-> Ptr(last'.key), key_len |-> KeyLen(last'.key)])
           ELSE table'.key_num = table.key_num ]_vars

C22_ResizeSetsLen ==
    [][(last'.op = "resize" /\ last'.ret = 0 /\ proc' = "live")
           => table'.key_num = last'.len]_vars

\* C23: the bucket count of a live table is the length of the allocated
\* bucket array and lies in 1..65535, so that no hash is taken modulo 0 and
\* no bucket index is computed for a capacity other than the array's.
C23_KeyNumFits ==
    proc = "live" =>
        /\ table.key_num = Len(table.store_house)
        /\ 1 <= table.key_num
        /\ table.key_num <= UINT16 - 1

\* C24: a pass begun by hash_table_iter_keys_reset returns the keys of the
\* table's entries one by one from the first entry of the first occupied
\* bucket on, whatever pass was abandoned before it, and the chain offset left
\* by an earlier pass makes no call of the new pass fault inside the bucket
\* array.
C24_FreshPass ==
    last.op \in {"iter_reset", "iter_next"} =>
        LET entries == AllEntries(table)
        IN  /\ proc = "SIGSEGV" => table.iter_pos >= table.key_num
            /\ proc = "live" =>
                  \A i \in DOMAIN visited :
                      i <= Len(entries) => visited[i] = entries[i].key

\* C25: every index at which hash_table_iter_keys_reset and
\* hash_table_iter_keys_next read store_house is below key_num, and once the
\* cursor of a table with entries is at key_num or beyond,
\* hash_table_iter_keys_is_done is true.
C25_IterInBounds ==
    [][ /\ (proc = "live" /\ last'.op = "iter_reset")
            => \A i \in reset_reads(table) : i < table.key_num
        /\ (proc = "live" /\ last'.op \in {"iter_next", "iter_next_stray"})
            => \A i \in next_reads(table, element_index) : i < table.key_num
        /\ (proc' = "live" /\ last'.op \in {"iter_reset", "iter_next", "iter_next_stray"}
               /\ table'.key_count > 0 /\ table'.iter_pos >= table'.key_num)
            => hash_table_iter_keys_is_done(table') ]_vars

\* C26: in MODE_ALLREF with both destroy functions, a call of add, remove,
\* steal or resize on a table that holds every key once passes to
\* key_destroy_fun no key that an entry of the table references when the call
\* has returned, and hash_table_resize calls no destroy function.  (Each key
\* has one buffer, so two entries never share a key reference; value
\* references, which the caller may share between entries, are left out.)
C26_NoDestroyedReference ==
    [][ ( /\ proc = "live" /\ proc' = "live"
          /\ last'.op \in {"add", "remove", "steal", "resize"}
          /\ table.mode = MODE_ALLREF
          /\ table.key_destroy_fun /\ table.value_destroy_fun
          /\ Len(AllEntries(table)) = Cardinality(PresentKeys(table)) )
        => /\ \A e \in Range(AllEntries(table')) :
                 <<"key_destroy_fun", e.key>> \notin Range(last'.ev)
           /\ last'.op = "resize" => DestroyFunCalls(last'.ev) = {} ]_vars

====
